---- MODULE Spec2Model ----
(***************************************************************************)
(* Thread-continuity coordinator of the HR agent: hr_agent.agents.hr_agent  *)
(* ask(), the Cosmos-backed thread directory, the local state files and the *)
(* two transports (cli._main, webapp.ws_endpoint) that call ask().           *)
(*                                                                           *)
(* Each element of Procs is one transport invocation at a time: either one  *)
(* run of the CLI or one websocket connection.  They interleave at the      *)
(* await points of the code.                                                 *)
(***************************************************************************)
EXTENDS Naturals, Sequences, FiniteSets, TLC

\* ---------------------------------------------------------------- domains
None == "None"          \* Python None
Empty == ""             \* Python empty string (falsy, like None)
Sessions == {"S1", "S2"}
Threads == {"t1", "t2"}
Procs == {"p1", "p2"}
Solo == {"p1"}          \* the process of Spec, whose exchanges never overlap
NotInvoked == "NotInvoked"

\* Bounds of the model.
MaxCalls == 3           \* ask() calls started over the whole run
MaxMsgs == 2            \* messages the Engine stream produces per exchange
MaxConcCalls == 2       \* ask() calls followed in the concurrent server
MaxText == 2            \* characters of one string the Engine hands out
MaxParts == 2           \* elements of one sequence the Engine hands out

OptThread == Threads \cup {None}
ThreadArgs == Threads \cup {None, Empty}

VARIABLES
    dir,            \* Cosmos container: session id -> thread_id of its document
    sessionFile,    \* .state/session_id.txt, None when missing or blank
    threadFile,     \* .state/thread_id.txt, None when missing
    ncalls,         \* ask() calls started so far
    ctx,            \* which transport runs in the process: "none", "cli", "ws"
    pc,             \* position of the process in ask() / its transport
    session_id,     \* ask(): session_id
    thread_id,      \* ask(): thread_id (argument, then the resolved value)
    reuse_thread,   \* ask(): reuse_thread
    stream,         \* ask(): stream
    cosmos_tid,     \* ask(): cosmos_tid
    tid,            \* ask(): tid, the thread id read back after the Engine call
    out,            \* increments the generator has yielded so far
    nmsg,           \* Engine stream messages consumed by the generator
    ws_thread_id,   \* ws_endpoint: thread_id cached for the connection
    hist,           \* per process: what the current exchange has done so far
    cached,         \* web server process: which of hr_agent's module globals
                    \* _cached_credential, _cached_client and
                    \* _cached_agent_definition are set
    built,          \* web server process: how often each was constructed
    txt,            \* the text of one answer, taken whole and as a stream
    progress        \* ws_endpoint: the "Still working..." tasks of a connection

storeVars == <<dir, sessionFile, threadFile>>
frameVars == <<session_id, thread_id, reuse_thread, stream, cosmos_tid, tid, out, nmsg>>
srvVars == <<cached, built>>
exchVars == <<storeVars, srvVars, ncalls, ctx, pc, frameVars, ws_thread_id, hist,
              progress>>
vars == <<dir, sessionFile, threadFile, ncalls, ctx, pc, session_id, thread_id,
          reuse_thread, stream, cosmos_tid, tid, out, nmsg, ws_thread_id, hist,
          cached, built, txt, progress>>

\* ---------------------------------------------------------------- helpers
\* Python truthiness of an Optional[str].
Truthy(x) == x # None /\ x # Empty

\* Python `a or b` on Optional[str].
PyOr(a, b) == IF Truthy(a) THEN a ELSE b

\* What one exchange has done; reset when ask() is entered.
HistInit ==
    [ gets |-> 0,               \* cosmos.get_thread_id calls made by ask()
      ups |-> 0,                \* cosmos.upsert_thread_id calls made by ask()
      engineIn |-> NotInvoked,  \* thread id the Engine was invoked with
      invs |-> 0,               \* Engine invocations (get_response, invoke_stream)
      seq |-> 0,                \* rank of this call among the ask() calls made
      engine |-> "none",        \* "none", "running", "ok", "failed"
      lookupFailed |-> FALSE,   \* read_item raised inside get_thread_id
      upsertFailed |-> FALSE,   \* upsert_item raised inside upsert_thread_id
      argThread |-> None,       \* thread_id as passed by the caller
      pre |-> None,             \* dir[session_id] when ask() was entered
      extWrite |-> FALSE,       \* another process wrote dir[session_id] since
      prevSess |-> None,        \* session of this caller's previous exchange
      prevTid |-> None,         \* thread that exchange returned, None if it
                                \* failed, ran without reuse, or the entry
                                \* was written by another process since
      msg |-> 0,                \* websocket: messages taken from the connection
      done |-> 0,               \* websocket: messages whose handling is over
      lastEvent |-> "none" ]    \* websocket: closing event of the last handled
                                \* message: "answer", "stream_end", "stream_error"

\* hist after process p wrote dir[s]: every other process working on s sees
\* an external write, and its record of a previous exchange on s is void.
Noted(h, p, s) ==
    [q \in Procs |->
        IF q = p THEN h[q]
        ELSE [h[q] EXCEPT
                !.extWrite = @ \/ (pc[q] # "idle" /\ session_id[q] = s),
                !.prevTid = IF h[q].prevSess = s THEN None ELSE @]]

\* ------------------------------------------------------------ the stores
\* CosmosThreadStore.get_thread_id: the document's thread_id, None when the
\* read raises (not found, or any transient failure).
get_thread_id(s, ok) == IF ok THEN dir[s] ELSE None

\* ThreadStore.load: the file's content, None when missing or blank.
ThreadStore_load == IF Truthy(threadFile) THEN threadFile ELSE None

\* SessionStore.load_or_create: the ids a call may return, the stored one or
\* any fresh uuid4-based one (which is then written to the file).  The
\* variant never reads the file.
load_or_create_fresh == Sessions
load_or_create == IF Truthy(sessionFile) THEN {sessionFile} ELSE Sessions

\* ask(): the thread object handed to the Engine, AzureAIAgentThread(thread_id)
\* `if thread_id`, else a thread without id (None here).
ThreadFor(t) == IF Truthy(t) THEN t ELSE None

\* ask(): `if reuse_thread and not thread_id`; the two variants drop one
\* half of the test.
ShouldLookup_always(r, t) == r
ShouldLookup_noreuse(r, t) == ~Truthy(t)
ShouldLookup(r, t) == r /\ ~Truthy(t)

\* ask(): `if reuse_thread and tid: if not cosmos_tid or tid != cosmos_tid`;
\* the variant writes only over an entry it has read.
ShouldUpsert_onlyChanged(r, t, c) == r /\ Truthy(t) /\ Truthy(c) /\ t # c
ShouldUpsert(r, t, c) == r /\ Truthy(t) /\ (~Truthy(c) \/ t # c)

\* _stream_generator(): the same test before the terminal increment; the
\* variant writes only when it has read no entry.
StreamShouldUpsert_onlyMissing(r, t, c) == r /\ Truthy(t) /\ ~Truthy(c)
StreamShouldUpsert(r, t, c) == r /\ Truthy(t) /\ (~Truthy(c) \/ t # c)

\* ------------------------------------------------------- answer text
\* What the Engine hands out as content: nothing, a string, a sequence of
\* contents, an object with a `content` attribute, or any other object
\* (known by its str()).
NoContent == [kind |-> "none"]
Str(s) == [kind |-> "str", s |-> s]
List(items) == [kind |-> "list", items |-> items]
Obj(content) == [kind |-> "obj", content |-> content]
Other(repr) == [kind |-> "other", repr |-> repr]

RECURSIVE Strs(_)
Strs(n) == IF n = 0 THEN {""}
           ELSE Strs(n - 1) \cup {s \o c : s \in Strs(n - 1), c \in {"a", "b"}}

Tuples(S, n) == UNION {[1..k -> S] : k \in 0..n}

Flat == {NoContent, Other("<obj>")} \cup {Str(s) : s \in Strs(MaxText)}
Lists == {List(t) : t \in Tuples({Str(s) : s \in Strs(1)} \cup {NoContent}, MaxParts)}
Contents == Flat \cup Lists \cup {Obj(c) : c \in Flat \cup Lists}

\* Python `sep.join(parts)`.
RECURSIVE join(_, _)
join(sep, parts) ==
    IF parts = <<>> THEN ""
    ELSE IF Len(parts) = 1 THEN parts[1]
    ELSE parts[1] \o sep \o join(sep, Tail(parts))

\* _to_text
RECURSIVE _to_text(_)
_to_text(x) ==
    IF x.kind = "none" THEN ""
    ELSE IF x.kind = "str" THEN x.s
    ELSE IF x.kind = "list"
         THEN join("\n", [i \in 1..Len(x.items) |-> _to_text(x.items[i])])
    ELSE IF x.kind = "obj" THEN _to_text(x.content)
    ELSE x.repr

\* The ways the Engine streams an answer whose whole content is w, as the
\* contents of the messages of invoke_stream: in one message; a string in
\* two fragments; a sequence part by part; an object as its content is
\* streamed.
RECURSIVE Streamed(_)
Streamed(w) ==
    {<<w>>}
    \cup (IF w.kind = "str"
          THEN {<<Str(ab[1]), Str(ab[2])>> :
                   ab \in {f \in Strs(MaxText) \X Strs(MaxText) :
                              f[1] \o f[2] = w.s}}
          ELSE {})
    \cup (IF w.kind = "list" THEN {w.items} ELSE {})
    \cup (IF w.kind = "obj" THEN Streamed(w.content) ELSE {})

\* One question answered both ways: the Engine's whole content and its
\* stream, ask()'s answer_text, the chunks the consumer has accumulated and
\* the text it joins them to.
TextIdle ==
    [pc |-> "idle", whole |-> NoContent, msgs |-> <<>>, i |-> 0,
     answer_text |-> "", accumulated_text |-> <<>>, joined |-> ""]

\* ---------------------------------------------------- progress tasks
\* The _show_progress tasks of one connection: cur is the task the variable
\* progress_task refers to ("sleeping" until it has sent or was cancelled),
\* orphans counts earlier tasks still sleeping, status is what was sent
\* under the current message_id: nothing, a status event while the message
\* was handled ("sent"), or one after its closing event ("late").
NoProgress == [cur |-> "none", orphans |-> 0, status |-> "none"]

\* ws_endpoint, a message was received: a new message_id, and for a
\* streaming message `progress_task = asyncio.create_task(_show_progress())`
Created(g, st) ==
    IF st
    THEN [cur |-> "sleeping",
          orphans |-> g.orphans + (IF g.cur = "sleeping" THEN 1 ELSE 0),
          status |-> "none"]
    ELSE [g EXCEPT !.status = "none"]

\* progress_task.cancel()
Cancelled(g) == [g EXCEPT !.cur = "none"]

\* ------------------------------------------------------------------ Init
\* The directory and the state files outlive the processes, so a run may
\* start with entries in them.  Thread and session ids are interchangeable
\* names, so one of each is enough for the initial content.
Init ==
    /\ dir \in [Sessions -> {None, "t1"}]
    /\ sessionFile \in {None, "S1"}
    /\ threadFile \in {None, "t1"}
    /\ ncalls = 0
    /\ ctx = [p \in Procs |-> "none"]
    /\ pc = [p \in Procs |-> "idle"]
    /\ session_id = [p \in Procs |-> None]
    /\ thread_id = [p \in Procs |-> None]
    /\ reuse_thread = [p \in Procs |-> TRUE]
    /\ stream = [p \in Procs |-> FALSE]
    /\ cosmos_tid = [p \in Procs |-> None]
    /\ tid = [p \in Procs |-> None]
    /\ out = [p \in Procs |-> <<>>]
    /\ nmsg = [p \in Procs |-> 0]
    /\ ws_thread_id = [p \in Procs |-> None]
    /\ hist = [p \in Procs |-> HistInit]
    /\ cached = [credential |-> FALSE, client |-> FALSE, agent_definition |-> FALSE]
    /\ built = [credential |-> 0, client |-> 0, agent_definition |-> 0]
    /\ txt = TextIdle
    /\ progress = [p \in Procs |-> NoProgress]

\* ------------------------------------------------------------ ask(): entry
\* The frame of a fresh ask() call of process p.  cosmos_tid is the
\* parameter's default: no caller in the repository passes it.
Enter(p, s, t, r, st) ==
    /\ ncalls < MaxCalls
    /\ ncalls' = ncalls + 1
    /\ session_id' = [session_id EXCEPT ![p] = s]
    /\ thread_id' = [thread_id EXCEPT ![p] = t]
    /\ reuse_thread' = [reuse_thread EXCEPT ![p] = r]
    /\ stream' = [stream EXCEPT ![p] = st]
    /\ cosmos_tid' = [cosmos_tid EXCEPT ![p] = None]
    /\ tid' = [tid EXCEPT ![p] = None]
    /\ out' = [out EXCEPT ![p] = <<>>]
    /\ nmsg' = [nmsg EXCEPT ![p] = 0]
    /\ hist' = [hist EXCEPT ![p] =
                  [HistInit EXCEPT !.argThread = t, !.pre = dir[s],
                                   !.prevSess = hist[p].prevSess,
                                   !.prevTid = IF hist[p].prevSess = s
                                               THEN hist[p].prevTid ELSE None,
                                   !.msg = IF ctx[p] = "ws"
                                           THEN hist[p].msg + 1 ELSE 0,
                                   !.seq = ncalls + 1,
                                   !.done = hist[p].done,
                                   !.lastEvent = hist[p].lastEvent]]
    /\ pc' = [pc EXCEPT ![p] = "resolve"]

\* cli._main: one run of the CLI.  ask() is called without session_id, so
\* SessionStore.load_or_create supplies it: the stored id, or a new one
\* (uuid4) that is written to the file.
CliCall(p) ==
    /\ pc[p] = "idle"
    /\ \E t \in ThreadArgs, r \in BOOLEAN, st \in BOOLEAN :
         \E s \in load_or_create :
            /\ sessionFile' = s
            /\ Enter(p, s, t, r, st)
    /\ ctx' = [ctx EXCEPT ![p] = "cli"]
    /\ UNCHANGED <<txt, progress, srvVars, dir, threadFile, ws_thread_id>>

\* Where ask() goes once client and agent definition are at hand: to
\* get_response, or it returns the generator.
Ready(p) == IF stream[p] THEN "gen_susp" ELSE "invoke"

\* _get_or_create_agent_definition(client): the cached definition is returned
\* at once; otherwise get_agent / create_agent is awaited.
DefOrReady(p, c) == IF c.agent_definition THEN Ready(p) ELSE "def_await"

\* ask(): the module globals, from the end of thread resolution to the next
\* await.  The credential is built in place.  A missing client is built by
\* `await create_client(...).__aenter__()`, which may or may not suspend.
\* The CLI is a process of its own with one ask() call: its globals are
\* fresh and nothing shares them, so they are not kept.
Globals(p) ==
    IF ctx[p] # "ws"
    THEN /\ pc' = [pc EXCEPT ![p] = Ready(p)]
         /\ UNCHANGED srvVars
    ELSE \E susp \in BOOLEAN :
           LET needCred == ~cached.credential
               needClient == ~cached.client
               inPlace == needClient /\ ~susp
               c1 == [cached EXCEPT !.credential = TRUE,
                                    !.client = @ \/ inPlace]
           IN /\ needClient \/ ~susp
              /\ cached' = c1
              /\ built' = [built EXCEPT
                             !.credential = IF needCred THEN @ + 1 ELSE @,
                             !.client = IF inPlace THEN @ + 1 ELSE @]
              /\ pc' = [pc EXCEPT ![p] = IF needClient /\ susp
                                         THEN "client_await"
                                         ELSE DefOrReady(p, c1)]

\* Resolve with a get_thread_id that lets the read error through.
Resolve_raises(p) ==
    /\ pc[p] = "resolve"
    /\ IF ShouldLookup(reuse_thread[p], thread_id[p])
       THEN \E ok \in BOOLEAN :
              /\ hist' = [hist EXCEPT ![p].gets = @ + 1, ![p].lookupFailed = ~ok]
              /\ IF ok
                 THEN /\ cosmos_tid' = [cosmos_tid EXCEPT ![p] = dir[session_id[p]]]
                      /\ thread_id' = [thread_id EXCEPT ![p] = dir[session_id[p]]]
                      /\ Globals(p)
                 ELSE /\ pc' = [pc EXCEPT ![p] = "raised"]
                      /\ UNCHANGED <<cosmos_tid, thread_id, srvVars>>
       ELSE /\ Globals(p)
            /\ UNCHANGED <<cosmos_tid, thread_id, hist>>
    /\ UNCHANGED <<txt, progress, storeVars, ncalls, ctx, session_id, reuse_thread, stream, tid,
                   out, nmsg, ws_thread_id>>

\* ask(): thread resolution, up to the next await (cosmos.get_thread_id is
\* awaited; what follows it runs without suspension until a global has to
\* be built).
Resolve(p) ==
    /\ pc[p] = "resolve"
    /\ IF ShouldLookup(reuse_thread[p], thread_id[p])
       THEN \E ok \in BOOLEAN :
              /\ cosmos_tid' = [cosmos_tid EXCEPT ![p] = get_thread_id(session_id[p], ok)]
              /\ thread_id' = [thread_id EXCEPT ![p] = get_thread_id(session_id[p], ok)]
              /\ hist' = [hist EXCEPT ![p].gets = @ + 1, ![p].lookupFailed = ~ok]
       ELSE UNCHANGED <<cosmos_tid, thread_id, hist>>
    /\ Globals(p)
    /\ UNCHANGED <<txt, progress, storeVars, ncalls, ctx, session_id, reuse_thread, stream, tid,
                   out, nmsg, ws_thread_id>>

\* ask(): create_client(...).__aenter__() has returned; the client is stored
\* in _cached_client, whatever another call has stored there meanwhile.
ClientReady(p) ==
    /\ pc[p] = "client_await"
    /\ cached' = [cached EXCEPT !.client = TRUE]
    /\ built' = [built EXCEPT !.client = @ + 1]
    /\ pc' = [pc EXCEPT ![p] = DefOrReady(p, cached)]
    /\ UNCHANGED <<txt, progress, storeVars, ncalls, ctx, frameVars, ws_thread_id, hist>>

\* _get_or_create_agent_definition: get_agent / create_agent has returned;
\* the definition is stored in _cached_agent_definition.
DefReady(p) ==
    /\ pc[p] = "def_await"
    /\ cached' = [cached EXCEPT !.agent_definition = TRUE]
    /\ built' = [built EXCEPT !.agent_definition = @ + 1]
    /\ pc' = [pc EXCEPT ![p] = Ready(p)]
    /\ UNCHANGED <<txt, progress, storeVars, ncalls, ctx, frameVars, ws_thread_id, hist>>

\* Invoke with one retry of a failed Engine call.
Invoke_retry(p) ==
    /\ pc[p] = "invoke"
    /\ \/ /\ \E a \in OptThread, b \in OptThread :
                tid' = [tid EXCEPT ![p] = PyOr(a, b)]
          /\ hist' = [hist EXCEPT ![p].engineIn = ThreadFor(thread_id[p]),
                                  ![p].invs = @ + 1, ![p].engine = "ok"]
          /\ pc' = [pc EXCEPT ![p] = "persist"]
       \/ /\ hist' = [hist EXCEPT ![p].engineIn = ThreadFor(thread_id[p]),
                                  ![p].invs = @ + 1, ![p].engine = "failed"]
          /\ pc' = [pc EXCEPT ![p] = IF hist[p].invs = 0 THEN "invoke" ELSE "raised"]
          /\ UNCHANGED tid
    /\ UNCHANGED <<txt, progress, storeVars, srvVars, ncalls, ctx, session_id, thread_id, reuse_thread,
                   stream, cosmos_tid, out, nmsg, ws_thread_id>>

\* ask(), stream=False: `resp = await agent.get_response(...)`, then
\* `tid = thread.id or resp.thread.id`.  The Engine is an external service:
\* it may raise, and the ids it reports are its own choice.
Invoke(p) ==
    /\ pc[p] = "invoke"
    /\ \/ /\ \E a \in OptThread, b \in OptThread :
                tid' = [tid EXCEPT ![p] = PyOr(a, b)]
          /\ hist' = [hist EXCEPT ![p].engineIn = ThreadFor(thread_id[p]),
                                  ![p].invs = @ + 1, ![p].engine = "ok"]
          /\ pc' = [pc EXCEPT ![p] = "persist"]
       \/ /\ hist' = [hist EXCEPT ![p].engineIn = ThreadFor(thread_id[p]),
                                  ![p].invs = @ + 1, ![p].engine = "failed"]
          /\ pc' = [pc EXCEPT ![p] = "raised"]
          /\ UNCHANGED tid
    /\ UNCHANGED <<txt, progress, storeVars, srvVars, ncalls, ctx, session_id, thread_id, reuse_thread,
                   stream, cosmos_tid, out, nmsg, ws_thread_id>>

\* Upsert under one document id for every session.
Upsert_oneDocument(p, next) ==
    \E ok \in BOOLEAN :
        IF ok
        THEN /\ dir' = [s \in Sessions |-> tid[p]]
             /\ hist' = Noted([hist EXCEPT ![p].ups = @ + 1], p, session_id[p])
             /\ pc' = [pc EXCEPT ![p] = next]
        ELSE /\ hist' = [hist EXCEPT ![p].ups = @ + 1, ![p].upsertFailed = TRUE]
             /\ pc' = [pc EXCEPT ![p] = "raised"]
             /\ UNCHANGED dir

\* Upsert as a conditional write: the document is replaced only while it
\* still holds what this call has read, and is left alone otherwise.
Upsert_ifUnchanged(p, next) ==
    \E ok \in BOOLEAN :
        IF ok
        THEN /\ dir' = IF dir[session_id[p]] = cosmos_tid[p]
                       THEN [dir EXCEPT ![session_id[p]] = tid[p]]
                       ELSE dir
             /\ hist' = Noted([hist EXCEPT ![p].ups = @ + 1], p, session_id[p])
             /\ pc' = [pc EXCEPT ![p] = next]
        ELSE /\ hist' = [hist EXCEPT ![p].ups = @ + 1, ![p].upsertFailed = TRUE]
             /\ pc' = [pc EXCEPT ![p] = "raised"]
             /\ UNCHANGED dir

\* CosmosThreadStore.upsert_thread_id as called by process p: the document
\* is written, or upsert_item raises and the error leaves through the
\* try/finally (there is no except clause).  next is where p goes on success.
Upsert(p, next) ==
    \E ok \in BOOLEAN :
        IF ok
        THEN /\ dir' = [dir EXCEPT ![session_id[p]] = tid[p]]
             /\ hist' = Noted([hist EXCEPT ![p].ups = @ + 1], p, session_id[p])
             /\ pc' = [pc EXCEPT ![p] = next]
        ELSE /\ hist' = [hist EXCEPT ![p].ups = @ + 1, ![p].upsertFailed = TRUE]
             /\ pc' = [pc EXCEPT ![p] = "raised"]
             /\ UNCHANGED dir

\* ask(), stream=False: the write "only if missing/changed", then
\* `return (answer_text, tid)`.
Persist(p) ==
    /\ pc[p] = "persist"
    /\ IF ShouldUpsert(reuse_thread[p], tid[p], cosmos_tid[p])
       THEN Upsert(p, "returned")
       ELSE /\ pc' = [pc EXCEPT ![p] = "returned"]
            /\ UNCHANGED <<dir, hist>>
    /\ UNCHANGED <<txt, progress, srvVars, sessionFile, threadFile, ncalls, ctx, frameVars, ws_thread_id>>

\* ------------------------------------------------- ask(): _stream_generator
\* The consumer asks the generator for its next increment (`async for`).
\* The first request starts agent.invoke_stream.
Anext(p) ==
    /\ pc[p] = "gen_susp"
    /\ pc' = [pc EXCEPT ![p] = "gen_run"]
    /\ hist' = IF hist[p].engine = "none"
               THEN [hist EXCEPT ![p].engineIn = ThreadFor(thread_id[p]),
                                 ![p].invs = @ + 1, ![p].engine = "running"]
               ELSE hist
    /\ UNCHANGED <<txt, progress, storeVars, srvVars, ncalls, ctx, frameVars, ws_thread_id>>

\* GenMsg with the thread recorded as soon as the first chunk is yielded.
GenMsg_eager(p) ==
    /\ pc[p] = "gen_run"
    /\ \/ /\ nmsg[p] < MaxMsgs
          /\ nmsg' = [nmsg EXCEPT ![p] = @ + 1]
          /\ out' = [out EXCEPT ![p] = Append(@, "chunk")]
          /\ pc' = [pc EXCEPT ![p] = "gen_susp"]
          /\ IF reuse_thread[p] /\ out[p] = <<>>
             THEN \E a \in Threads :
                    /\ dir' = [dir EXCEPT ![session_id[p]] = a]
                    /\ hist' = [hist EXCEPT ![p].ups = @ + 1]
             ELSE UNCHANGED <<dir, hist>>
          /\ UNCHANGED tid
       \/ /\ \E a \in OptThread : tid' = [tid EXCEPT ![p] = a]
          /\ hist' = [hist EXCEPT ![p].engine = "ok"]
          /\ pc' = [pc EXCEPT ![p] = "gen_persist"]
          /\ UNCHANGED <<out, nmsg, dir>>
       \/ /\ hist' = [hist EXCEPT ![p].engine = "failed"]
          /\ pc' = [pc EXCEPT ![p] = "raised"]
          /\ UNCHANGED <<out, nmsg, tid, dir>>
    /\ progress' = IF ctx[p] = "ws" /\ Len(out'[p]) > Len(out[p])
                   THEN [progress EXCEPT ![p] = Cancelled(@)]
                   ELSE progress
    /\ UNCHANGED <<txt, srvVars, sessionFile, threadFile, ncalls, ctx, session_id, thread_id,
                   reuse_thread, stream, cosmos_tid, ws_thread_id>>

\* One step of `async for msg in agent.invoke_stream(...)`: a message with
\* text is yielded as a chunk, one without text is skipped, the stream ends
\* (tid = thread.id is read) or the Engine raises.
GenMsg(p) ==
    /\ pc[p] = "gen_run"
    /\ \/ /\ nmsg[p] < MaxMsgs
          /\ nmsg' = [nmsg EXCEPT ![p] = @ + 1]
          /\ \E text \in {"text", Empty} :
                IF Truthy(text)
                THEN /\ out' = [out EXCEPT ![p] = Append(@, "chunk")]
                     /\ pc' = [pc EXCEPT ![p] = "gen_susp"]
                ELSE UNCHANGED <<out, pc>>
          /\ UNCHANGED <<tid, hist>>
       \/ /\ \E a \in OptThread : tid' = [tid EXCEPT ![p] = a]
          /\ hist' = [hist EXCEPT ![p].engine = "ok"]
          /\ pc' = [pc EXCEPT ![p] = "gen_persist"]
          /\ UNCHANGED <<out, nmsg>>
       \/ /\ hist' = [hist EXCEPT ![p].engine = "failed"]
          /\ pc' = [pc EXCEPT ![p] = "raised"]
          /\ UNCHANGED <<out, nmsg, tid>>
    /\ progress' = IF ctx[p] = "ws" /\ Len(out'[p]) > Len(out[p])
                   THEN [progress EXCEPT ![p] = Cancelled(@)]
                   ELSE progress
    /\ UNCHANGED <<txt, storeVars, srvVars, ncalls, ctx, session_id, thread_id, reuse_thread,
                   stream, cosmos_tid, ws_thread_id>>

\* GenPersist by a generator that yields the terminal increment first and
\* leaves the write for its next resumption.
GenPersist_doneFirst(p) ==
    /\ pc[p] = "gen_persist"
    /\ pc' = [pc EXCEPT ![p] = "gen_done"]
    /\ out' = [out EXCEPT ![p] = Append(@, "done")]
    /\ UNCHANGED <<txt, progress, srvVars, dir, hist, sessionFile, threadFile, ncalls, ctx,
                   session_id, thread_id, reuse_thread, stream, cosmos_tid, tid,
                   nmsg, ws_thread_id>>

\* After the loop: the write "only if missing/changed", then
\* `yield {"type": "done", "thread_id": tid}`.
GenPersist(p) ==
    /\ pc[p] = "gen_persist"
    /\ IF StreamShouldUpsert(reuse_thread[p], tid[p], cosmos_tid[p])
       THEN Upsert(p, "gen_done")
       ELSE /\ pc' = [pc EXCEPT ![p] = "gen_done"]
            /\ UNCHANGED <<dir, hist>>
    /\ out' = [out EXCEPT ![p] = IF pc'[p] = "gen_done" THEN Append(@, "done") ELSE @]
    /\ UNCHANGED <<txt, progress, srvVars, sessionFile, threadFile, ncalls, ctx, session_id, thread_id,
                   reuse_thread, stream, cosmos_tid, tid, nmsg, ws_thread_id>>

\* The request after the terminal increment: the generator body ends and the
\* consumer's loop sees StopAsyncIteration.
GenFinish(p) ==
    /\ pc[p] = "gen_done"
    /\ pc' = [pc EXCEPT ![p] = "exhausted"]
    /\ UNCHANGED <<txt, progress, storeVars, srvVars, ncalls, ctx, frameVars, ws_thread_id, hist>>

\* The consumer stops draining while the generator is suspended before its
\* terminal increment; the generator is never resumed.
Abandon(p) ==
    /\ pc[p] = "gen_susp"
    /\ pc' = [pc EXCEPT ![p] = "abandoned"]
    /\ UNCHANGED <<txt, progress, storeVars, srvVars, ncalls, ctx, frameVars, ws_thread_id, hist>>

\* ------------------------------------------------------------ transports
Succeeded(p) == pc[p] \in {"returned", "exhausted"}

\* The caller's record of the exchange that just ended.
Remember(p) ==
    [HistInit EXCEPT
        !.prevSess = session_id[p],
        !.prevTid = IF Succeeded(p) /\ reuse_thread[p] /\ Truthy(tid[p])
                       /\ ~hist[p].extWrite
                    THEN tid[p] ELSE None,
        !.msg = IF ctx[p] = "ws" THEN hist[p].msg ELSE 0,
        !.done = IF ctx[p] = "ws" THEN hist[p].msg ELSE 0,
        !.lastEvent = IF ctx[p] # "ws" THEN "none"
                      ELSE IF pc[p] = "returned" THEN "answer"
                      ELSE IF pc[p] = "exhausted" THEN "stream_end"
                      ELSE "stream_error"]

\* The frame of ask() is gone once the call is over.
Drop(p) ==
    /\ thread_id' = [thread_id EXCEPT ![p] = None]
    /\ reuse_thread' = [reuse_thread EXCEPT ![p] = TRUE]
    /\ stream' = [stream EXCEPT ![p] = FALSE]
    /\ cosmos_tid' = [cosmos_tid EXCEPT ![p] = None]
    /\ tid' = [tid EXCEPT ![p] = None]
    /\ out' = [out EXCEPT ![p] = <<>>]
    /\ nmsg' = [nmsg EXCEPT ![p] = 0]

\* cli._main ends: the answer was printed, or the error ended the run.
CliExit(p) ==
    /\ ctx[p] = "cli"
    /\ pc[p] \in {"returned", "raised", "exhausted", "abandoned"}
    /\ pc' = [pc EXCEPT ![p] = "idle"]
    /\ ctx' = [ctx EXCEPT ![p] = "none"]
    /\ hist' = [hist EXCEPT ![p] = Remember(p)]
    /\ session_id' = [session_id EXCEPT ![p] = None]
    /\ Drop(p)
    /\ UNCHANGED <<txt, progress, storeVars, srvVars, ncalls, ws_thread_id>>

\* ws_endpoint: a connection is accepted for the session of its query string
\* and the thread id is loaded once.
WsConnect(p) ==
    /\ pc[p] = "idle"
    /\ \E s \in Sessions, ok \in BOOLEAN :
          /\ session_id' = [session_id EXCEPT ![p] = s]
          /\ ws_thread_id' = [ws_thread_id EXCEPT ![p] = get_thread_id(s, ok)]
    /\ ctx' = [ctx EXCEPT ![p] = "ws"]
    /\ pc' = [pc EXCEPT ![p] = "ws_wait"]
    /\ hist' = [hist EXCEPT ![p] = HistInit]
    /\ UNCHANGED <<txt, progress, storeVars, srvVars, ncalls, thread_id, reuse_thread, stream, cosmos_tid,
                   tid, out, nmsg>>

\* WsReceive by a handler that takes the next message whatever the state of
\* the exchange before it.
WsReceive_overlapping(p) ==
    /\ ctx[p] = "ws"
    /\ \E st \in BOOLEAN :
          /\ Enter(p, session_id[p], ws_thread_id[p], TRUE, st)
          /\ progress' = [progress EXCEPT ![p] = Created(@, st)]
    /\ UNCHANGED <<txt, storeVars, srvVars, ctx, ws_thread_id>>

\* ws_endpoint: a message arrives and ask() is called with the connection's
\* thread id, reuse_thread=True and the client's streaming preference.
WsReceive(p) ==
    /\ ctx[p] = "ws"
    /\ pc[p] = "ws_wait"
    /\ \E st \in BOOLEAN :
          /\ Enter(p, session_id[p], ws_thread_id[p], TRUE, st)
          /\ progress' = [progress EXCEPT ![p] = Created(@, st)]
    /\ UNCHANGED <<txt, storeVars, srvVars, ctx, ws_thread_id>>

\* The test of a handler that leaves persistence to ask() alone.
WsShouldUpsert_never(new_tid, old_tid) == FALSE

\* ws_endpoint: `if new_tid and new_tid != thread_id`
WsShouldUpsert(new_tid, old_tid) == Truthy(new_tid) /\ new_tid # old_tid

\* ws_endpoint, the streaming branch after its loop: `progress_task.cancel()`
\* before stream_end is sent; the non-streaming branch has no such task.
Ended(p) == IF stream[p] THEN Cancelled(progress[p]) ELSE progress[p]

\* ws_endpoint after a delivered answer: "Persist thread only if
\* missing/changed", then back to receive_json.  An upsert that raises is
\* not caught by the handler and ends the connection.
WsPost(p) ==
    /\ ctx[p] = "ws"
    /\ Succeeded(p)
    /\ IF WsShouldUpsert(tid[p], ws_thread_id[p])
       THEN \E ok \in BOOLEAN :
              IF ok
              THEN /\ dir' = [dir EXCEPT ![session_id[p]] = tid[p]]
                   /\ progress' = [progress EXCEPT ![p] = Ended(p)]
                   /\ ws_thread_id' = [ws_thread_id EXCEPT ![p] = tid[p]]
                   /\ hist' = Noted([hist EXCEPT ![p] = Remember(p)], p, session_id[p])
                   /\ pc' = [pc EXCEPT ![p] = "ws_wait"]
                   /\ UNCHANGED <<ctx, session_id>>
              ELSE /\ pc' = [pc EXCEPT ![p] = "idle"]
                   /\ progress' = [progress EXCEPT ![p] = NoProgress]
                   /\ ctx' = [ctx EXCEPT ![p] = "none"]
                   /\ session_id' = [session_id EXCEPT ![p] = None]
                   /\ ws_thread_id' = [ws_thread_id EXCEPT ![p] = None]
                   /\ hist' = [hist EXCEPT ![p] = HistInit]
                   /\ UNCHANGED dir
       ELSE /\ pc' = [pc EXCEPT ![p] = "ws_wait"]
            /\ progress' = [progress EXCEPT ![p] = Ended(p)]
            /\ hist' = [hist EXCEPT ![p] = Remember(p)]
            /\ UNCHANGED <<dir, ctx, session_id, ws_thread_id>>
    /\ Drop(p)
    /\ UNCHANGED <<txt, srvVars, sessionFile, threadFile, ncalls>>

\* WsError by a handler that lets the error end the connection.
WsError_closes(p) ==
    /\ ctx[p] = "ws"
    /\ pc[p] = "raised"
    /\ pc' = [pc EXCEPT ![p] = "idle"]
    /\ ctx' = [ctx EXCEPT ![p] = "none"]
    /\ session_id' = [session_id EXCEPT ![p] = None]
    /\ ws_thread_id' = [ws_thread_id EXCEPT ![p] = None]
    /\ hist' = [hist EXCEPT ![p] = HistInit]
    /\ Drop(p)
    /\ progress' = [progress EXCEPT ![p] = NoProgress]
    /\ UNCHANGED <<txt, storeVars, srvVars, ncalls>>

\* ws_endpoint: `except Exception` around the exchange: a stream_error event
\* is sent and the loop continues with the next message.  The handler does
\* not touch progress_task here.
WsError(p) ==
    /\ ctx[p] = "ws"
    /\ pc[p] = "raised"
    /\ pc' = [pc EXCEPT ![p] = "ws_wait"]
    /\ hist' = [hist EXCEPT ![p] = Remember(p)]
    /\ Drop(p)
    /\ UNCHANGED <<txt, progress, storeVars, srvVars, ncalls, ctx, session_id, ws_thread_id>>

\* ws_endpoint ends: the client disconnected while the handler waited for a
\* message, or while it was forwarding a stream.
WsClose(p) ==
    /\ ctx[p] = "ws"
    /\ pc[p] \in {"ws_wait", "abandoned"}
    /\ pc' = [pc EXCEPT ![p] = "idle"]
    /\ ctx' = [ctx EXCEPT ![p] = "none"]
    /\ session_id' = [session_id EXCEPT ![p] = None]
    /\ ws_thread_id' = [ws_thread_id EXCEPT ![p] = None]
    /\ hist' = [hist EXCEPT ![p] = HistInit]
    /\ Drop(p)
    /\ progress' = [progress EXCEPT ![p] = NoProgress]
    /\ UNCHANGED <<txt, storeVars, srvVars, ncalls>>

\* _show_progress: the sleep of one of the connection's tasks is over and it
\* sends {"type": "status", "message_id": message_id, ...}.  message_id is
\* read from the handler's frame when the event is built, so it is the id
\* of the message received last.
ProgressFire(p) ==
    /\ ctx[p] = "ws"
    /\ \/ /\ progress[p].cur = "sleeping"
          /\ progress' = [progress EXCEPT
                            ![p].cur = "none",
                            ![p].status = IF hist[p].done = hist[p].msg
                                          THEN "late" ELSE "sent"]
       \/ /\ progress[p].orphans > 0
          /\ progress' = [progress EXCEPT
                            ![p].orphans = @ - 1,
                            ![p].status = IF hist[p].done = hist[p].msg
                                          THEN "late" ELSE "sent"]
    /\ UNCHANGED <<txt, storeVars, srvVars, ncalls, ctx, pc, frameVars,
                   ws_thread_id, hist>>

\* One step of process p.
Step(p) ==
    \/ CliCall(p)
    \/ Resolve(p)
    \/ ClientReady(p)
    \/ DefReady(p)
    \/ Invoke(p)
    \/ Persist(p)
    \/ Anext(p)
    \/ GenMsg(p)
    \/ GenPersist(p)
    \/ GenFinish(p)
    \/ Abandon(p)
    \/ CliExit(p)
    \/ WsConnect(p)
    \/ WsReceive(p)
    \/ WsPost(p)
    \/ WsError(p)
    \/ WsClose(p)

Next == \E p \in Solo : Step(p)

Spec == Init /\ [][Next]_vars

\* ------------------------------------------------ the web server, concurrent
\* Two websocket connections served by one process: their handlers are tasks
\* of one event loop and interleave at every await.
InitConc ==
    /\ Init
    /\ dir = [s \in Sessions |-> None]
    /\ sessionFile = None
    /\ threadFile = None

\* One step of the handler of connection p.
StepConc(p) ==
    \/ WsConnect(p)
    \/ WsReceive(p)
    \/ Resolve(p)
    \/ ClientReady(p)
    \/ DefReady(p)
    \/ Invoke(p)
    \/ Persist(p)
    \/ Anext(p)
    \/ GenMsg(p)
    \/ GenPersist(p)
    \/ GenFinish(p)
    \/ Abandon(p)
    \/ WsPost(p)
    \/ WsError(p)
    \/ WsClose(p)

\* The server is followed over its first MaxConcCalls calls of ask().
NextConc == \E p \in Procs : StepConc(p) /\ ncalls' <= MaxConcCalls

SpecConc == InitConc /\ [][NextConc]_vars

\* --------------------------------------- one connection and its progress tasks
\* One websocket connection, with the timers of its progress tasks running.
NextProgress == \E p \in Solo : StepConc(p) \/ ProgressFire(p)

SpecProgress == InitConc /\ [][NextProgress]_vars

\* ------------------------------------------- one answer, whole and streamed
InitText ==
    /\ Init
    /\ dir = [s \in Sessions |-> None]
    /\ sessionFile = None
    /\ threadFile = None

\* The Engine has an answer to the question on the resolved thread:
\* get_response would hand it out as the content w, invoke_stream as the
\* messages d.
TextAnswer ==
    /\ txt.pc = "idle"
    /\ \E w \in Contents : \E d \in Streamed(w) :
          txt' = [TextIdle EXCEPT !.pc = "whole", !.whole = w, !.msgs = d]
    /\ UNCHANGED exchVars

\* ask(), stream=False: `answer_text = _to_text(getattr(resp, "content", resp))`
TextWhole ==
    /\ txt.pc = "whole"
    /\ txt' = [txt EXCEPT !.answer_text = _to_text(txt.whole), !.pc = "stream"]
    /\ UNCHANGED exchVars

\* _stream_generator and its consumer, one message of the stream:
\* `text = _to_text(getattr(msg, "content", None))`, `if text:` the chunk is
\* yielded, and ws_endpoint appends its content to accumulated_text.
TextChunk ==
    /\ txt.pc = "stream"
    /\ txt.i < Len(txt.msgs)
    /\ LET text == _to_text(txt.msgs[txt.i + 1])
       IN txt' = [txt EXCEPT !.i = @ + 1,
                             !.accumulated_text =
                                 IF text # "" THEN Append(@, text) ELSE @]
    /\ UNCHANGED exchVars

\* ws_endpoint after the loop: `answer_text = "".join(accumulated_text)`
TextJoin ==
    /\ txt.pc = "stream"
    /\ txt.i = Len(txt.msgs)
    /\ txt' = [txt EXCEPT !.joined = join("", txt.accumulated_text), !.pc = "done"]
    /\ UNCHANGED exchVars

NextText == TextAnswer \/ TextWhole \/ TextChunk \/ TextJoin

SpecText == InitText /\ [][NextText]_vars

\* -------------------------------------------------------------- properties
\* ask() is running, or has ended and its caller has not yet moved on.
Active(p) == pc[p] \notin {"idle", "ws_wait"}

\* The exchange resolves its thread itself: reuse_thread=True, no thread id passed.
Resolving(p) == Active(p) /\ reuse_thread[p] /\ ~Truthy(hist[p].argThread)

\* C1: for a session without a directory entry, the first ask() with
\* reuse_thread=True and no thread id invokes the Engine without a thread,
\* and once the exchange has completed the directory maps the session to
\* exactly the thread the Engine returned.
C1_FirstExchange ==
    \A p \in Procs :
        (Resolving(p) /\ hist[p].pre = None /\ ~hist[p].extWrite)
        => /\ hist[p].engineIn \in {NotInvoked, None}
           /\ Succeeded(p) => dir[session_id[p]] = tid[p]

C1_Witness ==
    \E p \in Procs :
        /\ Resolving(p) /\ hist[p].pre = None
        /\ Succeeded(p) /\ hist[p].engineIn = None
        /\ tid[p] \in Threads /\ hist[p].ups = 1 /\ dir[session_id[p]] = tid[p]

\* C2: after a successfully completed exchange with reuse_thread=True that
\* no other exchange on the session overlapped, the directory maps the
\* session to the thread the Engine returned in that exchange, whenever it
\* returned one, also when that differs from the thread resolved as input.
C2_LatestReturned ==
    \A p \in Procs :
        (Succeeded(p) /\ reuse_thread[p] /\ Truthy(tid[p]) /\ ~hist[p].extWrite)
        => dir[session_id[p]] = tid[p]

C2_Witness ==
    \E p \in Procs :
        /\ ncalls >= 2 /\ stream[p] /\ Succeeded(p) /\ reuse_thread[p]
        /\ hist[p].gets = 1 /\ thread_id[p] \in Threads
        /\ tid[p] \in Threads /\ tid[p] # thread_id[p]
        /\ dir[session_id[p]] = tid[p]

\* C3: when ask() runs twice in a row on one session with reuse_thread=True,
\* nothing else writes the directory in between and the Engine returns the
\* same thread both times, the second call makes no upsert; this for every
\* transport, the websocket handler's second message included.
C3_SecondCallNoWrite ==
    \A p \in Procs :
        (/\ Succeeded(p) /\ reuse_thread[p]
         /\ hist[p].prevTid # None /\ tid[p] = hist[p].prevTid
         /\ ~hist[p].extWrite /\ ~hist[p].lookupFailed)
        => hist[p].ups = 0

\* C4: in the CLI (no session id passed), with reuse_thread=True and no
\* thread id, when the directory lookup misses or fails while the fallback
\* thread file holds a reference, the Engine is invoked with that reference.
C4_FallbackUsed ==
    \A p \in Procs :
        (/\ ctx[p] = "cli" /\ Resolving(p)
         /\ hist[p].gets = 1 /\ cosmos_tid[p] = None
         /\ ThreadStore_load # None
         /\ hist[p].engineIn # NotInvoked)
        => hist[p].engineIn = ThreadStore_load

\* C5: a directory lookup that raises is treated exactly like a miss: no
\* thread is resolved, ask() does not abort, and the Engine is what runs
\* next (once client and agent definition are at hand), invoked without a
\* thread.
C5_FailOpen ==
    \A p \in Procs :
        hist[p].lookupFailed
        => /\ thread_id[p] = None /\ cosmos_tid[p] = None
           /\ hist[p].engineIn \in {NotInvoked, None}
           /\ hist[p].engineIn = NotInvoked
                => pc[p] \in {"client_await", "def_await", "invoke",
                              "gen_susp", "abandoned"}

C5_Witness ==
    \E p \in Procs :
        /\ hist[p].lookupFailed /\ hist[p].pre \in Threads
        /\ hist[p].engineIn = None /\ hist[p].engine = "ok"

\* C6: a directory write that fails after the Engine produced its answer
\* does not keep the answer from the caller: the exchange does not end in
\* an error.
C6_AnswerDelivered ==
    \A p \in Procs :
        (hist[p].engine = "ok" /\ hist[p].upsertFailed) => pc[p] # "raised"

\* C7: a streamed exchange whose consumer stops draining before the
\* terminal increment makes no write to the directory.
C7_NoWriteBeforeTerminal ==
    \A p \in Procs :
        (stream[p] /\ pc[p] \in {"gen_susp", "abandoned"})
        => /\ hist[p].ups = 0
           /\ ~hist[p].extWrite => dir[session_id[p]] = hist[p].pre

C7_Witness ==
    \E p \in Procs :
        /\ stream[p] /\ pc[p] = "abandoned" /\ reuse_thread[p]
        /\ Len(out[p]) >= 1 /\ hist[p].pre = None /\ hist[p].ups = 0

\* Zero or more content increments, then exactly one terminal increment.
WellFormedStream(o) ==
    /\ Len(o) >= 1
    /\ o[Len(o)] = "done"
    /\ \A i \in 1..(Len(o) - 1) : o[i] = "chunk"

\* C8: a streamed exchange whose Engine stream completed has yielded, when
\* its generator is finished, zero or more content increments followed by
\* exactly one terminal increment, which is the last element.
C8_OneTerminal ==
    \A p \in Procs :
        (stream[p] /\ hist[p].engine = "ok" /\ pc[p] \in {"raised", "exhausted"})
        => WellFormedStream(out[p])

\* C9: with reuse_thread=False ask() neither looks up nor writes the
\* directory, streaming or not, whatever thread the Engine returns; the
\* session's entry is what it was before the call.
C9_NoReuseNoDirectory ==
    \A p \in Procs :
        (Active(p) /\ ~reuse_thread[p])
        => /\ hist[p].gets = 0
           /\ hist[p].ups = 0
           /\ ~hist[p].extWrite => dir[session_id[p]] = hist[p].pre

C9_Witness ==
    \E p \in Procs :
        /\ ~reuse_thread[p] /\ Succeeded(p) /\ ~Truthy(hist[p].argThread)
        /\ tid[p] \in Threads /\ tid[p] # dir[session_id[p]]

\* C10: a thread id passed to ask() is the thread the Engine is invoked
\* with, and no directory lookup is made, whatever the directory holds.
C10_ExplicitThread ==
    \A p \in Procs :
        (Active(p) /\ Truthy(hist[p].argThread))
        => /\ hist[p].gets = 0
           /\ thread_id[p] = hist[p].argThread
           /\ hist[p].engineIn \in {NotInvoked, hist[p].argThread}

C10_Witness ==
    \E p \in Procs :
        /\ Truthy(hist[p].argThread) /\ reuse_thread[p]
        /\ hist[p].engineIn = hist[p].argThread
        /\ dir[session_id[p]] \in Threads
        /\ dir[session_id[p]] # hist[p].argThread

\* C11: in the CLI, after a successful exchange with reuse_thread=True in
\* which the Engine returned a thread, the fallback thread file holds that
\* thread.
C11_FallbackRefreshed ==
    \A p \in Procs :
        (ctx[p] = "cli" /\ Succeeded(p) /\ reuse_thread[p] /\ Truthy(tid[p]))
        => ThreadStore_load = tid[p]

\* C12: when the Engine call fails, the failure is what the caller gets: the
\* Engine was invoked once for the exchange and the exchange wrote nothing
\* to the directory.
C12_EngineFailure ==
    \A p \in Procs :
        /\ hist[p].invs <= 1
        /\ hist[p].engine = "failed"
             => /\ pc[p] = "raised"
                /\ hist[p].invs = 1
                /\ hist[p].ups = 0
                /\ ~hist[p].extWrite => dir[session_id[p]] = hist[p].pre

C12_Witness ==
    \E p \in Procs :
        /\ hist[p].engine = "failed" /\ pc[p] = "raised" /\ reuse_thread[p]
        /\ stream[p] /\ Len(out[p]) >= 1 /\ hist[p].pre = None

\* C13: on a websocket connection, an exchange that failed in the Engine is
\* answered with a stream_error event for its message, after which the
\* connection is still open and waiting for the next message.
C13_ErrorKeepsConnection ==
    [][\A p \in Procs :
          (/\ ctx[p] = "ws" /\ pc[p] = "raised" /\ hist[p].engine = "failed"
           /\ pc'[p] # "raised")
          => /\ ctx'[p] = "ws" /\ pc'[p] = "ws_wait"
             /\ hist'[p].lastEvent = "stream_error"
             /\ hist'[p].done = hist[p].msg]_vars

C13_Witness ==
    \E p \in Procs :
        /\ ctx[p] = "ws" /\ hist[p].lastEvent = "stream_error"
        /\ hist[p].msg = 2 /\ hist[p].done = 1 /\ Succeeded(p)

\* C14: on one websocket connection the messages are handled one at a time,
\* in the order they are taken from it: message n+1 is taken only when the
\* handling of message n is over, so at most one exchange is in flight.
C14_OneAtATime ==
    \A p \in Procs :
        ctx[p] = "ws"
        => /\ hist[p].msg \in {hist[p].done, hist[p].done + 1}
           /\ Active(p) <=> hist[p].msg = hist[p].done + 1

C14_Witness ==
    \E p \in Procs :
        /\ ctx[p] = "ws" /\ hist[p].msg = 3 /\ hist[p].done = 2
        /\ pc[p] = "gen_run" /\ hist[p].lastEvent = "stream_end"

\* C15: the Engine client, its credential and the cached agent definition
\* are each built at most once in the life of the server process, whatever
\* the interleaving of the ask() calls.
C15_BuiltOnce ==
    /\ built.credential <= 1
    /\ built.client <= 1
    /\ built.agent_definition <= 1

\* C16: for one answer of the Engine, the text the consumer gets by
\* concatenating the streamed chunks equals the answer_text of the
\* non-streaming call, whatever the shape of the content.
C16_StreamEqualsWhole == txt.pc = "done" => txt.joined = txt.answer_text

\* C17: an exchange for session A reads and writes only the directory entry
\* of A: every entry that changes in a step is the entry of the session of a
\* call that is at its write and receives that call's thread, and what a
\* lookup yields is the entry of the caller's own session or nothing.
C17_Isolation ==
    [][ /\ \A s \in Sessions :
            dir'[s] # dir[s] =>
                \E p \in Procs : /\ session_id[p] = s
                                 /\ pc[p] \in {"persist", "gen_persist",
                                               "returned", "exhausted"}
                                 /\ dir'[s] = tid[p]
        /\ \A p \in Procs :
            hist'[p].gets = hist[p].gets + 1 =>
                cosmos_tid'[p] \in {dir[session_id[p]], None} ]_vars

C17_Witness ==
    /\ ctx["p1"] = "ws" /\ ctx["p2"] = "ws"
    /\ session_id["p1"] # session_id["p2"]
    /\ Active("p1") /\ Active("p2")
    /\ hist["p1"].gets = 1 /\ hist["p2"].gets = 1
    /\ hist["p1"].ups = 1 /\ ~hist["p1"].upsertFailed
    /\ dir[session_id["p1"]] = tid["p1"]
    /\ dir[session_id["p1"]] # hist["p1"].pre
    /\ dir[session_id["p2"]] = hist["p2"].pre
    /\ tid["p1"] # hist["p2"].pre

\* C18: no version check stands between a call and the directory: an upsert
\* that does not raise leaves the caller's thread in the entry of its
\* session, whatever the entry held, so the last writer wins.
C18_LastWriterWins ==
    [][ \A p \in Procs :
            (hist'[p].ups = hist[p].ups + 1 /\ ~hist'[p].upsertFailed) =>
                dir'[session_id[p]] = tid[p] ]_vars

\* The lost update: two exchanges on one session, both entered with no
\* recorded thread and each invoking the Engine without a thread.  p1 was
\* started last and has not completed yet, p2 has completed; both have
\* written, and the entry holds the thread of p2 only.
C18_Witness ==
    /\ ctx["p1"] = "ws" /\ ctx["p2"] = "ws"
    /\ session_id["p1"] = session_id["p2"]
    /\ hist["p1"].pre = None /\ hist["p2"].pre = None
    /\ hist["p1"].engineIn = None /\ hist["p2"].engineIn = None
    /\ hist["p1"].seq > hist["p2"].seq
    /\ pc["p1"] = "gen_done" /\ Succeeded("p2")
    /\ hist["p1"].ups = 1 /\ ~hist["p1"].upsertFailed
    /\ hist["p2"].ups = 1 /\ ~hist["p2"].upsertFailed
    /\ tid["p1"] # tid["p2"]
    /\ dir[session_id["p1"]] = tid["p2"]

\* C19: once the session file holds an id, load_or_create leaves the file
\* alone and every later CLI call gets that id.
C19_LoadOrCreateIdempotent ==
    [][Truthy(sessionFile)
         => /\ sessionFile' = sessionFile
            /\ \A p \in Procs :
                  (pc[p] = "idle" /\ pc'[p] = "resolve" /\ ctx'[p] = "cli")
                  => session_id'[p] = sessionFile]_vars

C19_Witness ==
    \E p \in Procs :
        /\ ncalls >= 2 /\ ctx[p] = "cli" /\ pc[p] = "resolve"
        /\ sessionFile = "S2"
        /\ session_id[p] = sessionFile /\ hist[p].prevSess = sessionFile

\* C20: with reuse_thread=True and a thread id passed, an exchange in which
\* the Engine returns that same thread makes no write to the directory.
C20_ExplicitSameNoWrite ==
    \A p \in Procs :
        (/\ Succeeded(p) /\ reuse_thread[p]
         /\ Truthy(hist[p].argThread) /\ tid[p] = hist[p].argThread)
        => hist[p].ups = 0
\* The consumer of p's stream has received the terminal increment.
DoneReceived(p) == stream[p] /\ Len(out[p]) >= 1 /\ out[p][Len(out[p])] = "done"

\* C21: in a streamed exchange with reuse_thread=True the write to the
\* directory is over before the terminal increment is yielded: whenever the
\* consumer holds the terminal increment and it carries a thread, the
\* directory maps the session to that thread, and a write that was required
\* (nothing read, or another thread read) has been made and has not failed.
C21_WrittenBeforeDone ==
    \A p \in Procs :
        (DoneReceived(p) /\ reuse_thread[p] /\ Truthy(tid[p]) /\ ~hist[p].extWrite)
        => /\ dir[session_id[p]] = tid[p]
           /\ StreamShouldUpsert(reuse_thread[p], tid[p], cosmos_tid[p])
                => (hist[p].ups = 1 /\ ~hist[p].upsertFailed)

C21_Witness ==
    \E p \in Procs :
        /\ pc[p] = "gen_done" /\ DoneReceived(p) /\ reuse_thread[p]
        /\ Len(out[p]) >= 2
        /\ tid[p] \in Threads /\ tid[p] # hist[p].pre
        /\ hist[p].ups = 1
        /\ dir[session_id[p]] = tid[p]

\* C23: for one message on a websocket connection the directory entry of
\* the session is written at most once, the write inside ask() and the
\* handler's own write counted together: ask() writes at most once, and the
\* handler writes (and takes the thread into its cache) only after an ask()
\* that has not written.
C23_OneWritePerMessage ==
    [][ \A p \in Procs :
            /\ hist'[p].ups <= 1
            /\ (/\ ctx[p] = "ws" /\ Succeeded(p)
                /\ pc'[p] = "ws_wait"
                /\ WsShouldUpsert(tid[p], ws_thread_id[p]))
               => hist[p].ups = 0 ]_vars

\* C24 as stated: between messages the thread id cached by the connection
\* equals the directory entry of its session.
C24_CacheEqualsDirectory ==
    \A p \in Procs :
        (ctx[p] = "ws" /\ pc[p] = "ws_wait" /\ ~hist[p].extWrite)
        => ws_thread_id[p] = dir[session_id[p]]

\* C24, amended: between messages the thread id cached by a connection that
\* is alone on its session is the directory entry of the session, or it is
\* absent (the lookup at connect failed, or there was no entry); right
\* after an exchange that returned a thread it is that thread.
C24_CacheEqualsDirectoryOrAbsent ==
    \A p \in Procs :
        (ctx[p] = "ws" /\ pc[p] = "ws_wait" /\ ~hist[p].extWrite)
        => /\ ws_thread_id[p] \in {dir[session_id[p]], None}
           /\ Truthy(hist[p].prevTid) => ws_thread_id[p] = hist[p].prevTid

\* Two messages handled, the last one failed, and the cache holds a thread
\* an exchange on this connection has returned.
C24_Witness ==
    \E p \in Procs :
        /\ ctx[p] = "ws" /\ pc[p] = "ws_wait"
        /\ hist[p].done = 2 /\ hist[p].lastEvent = "stream_error"
        /\ ws_thread_id[p] = "t2"
        /\ dir[session_id[p]] = "t2"

\* C22: once the stream_end or stream_error event of a message has been
\* sent, no event with its message_id follows; the handler sends chunks and
\* closing events only while it handles the message, so what is left to
\* state is that no "Still working..." status is sent after the closing
\* event.
C22_NoEventAfterEnd == \A p \in Procs : progress[p].status # "late"

====
